---- MODULE Spec2Model ----
(***************************************************************************)
(* A model of the byImpf appointment checker.                              *)
(*                                                                         *)
(* Two implementations of ImpfChecker live in the repository: the script   *)
(* src/impf.py (with main) and the library src/byimpf/client.py.  The      *)
(* variable impl selects which one a behaviour runs; main (src/impf.py)    *)
(* drives both.  The foreground is main's thread, the background is the    *)
(* ScheduleThread started by run_schedule.  A thread switch can happen     *)
(* between any two attribute stores, so stores to the session fields are   *)
(* separate steps.  An HTTP exchange whose request reads no session field  *)
(* is one step; the refresh exchange of the background job, which reads    *)
(* _refresh_token on sending and writes on receiving, is two.              *)
(***************************************************************************)
EXTENDS Integers, Sequences, FiniteSets, TLC

(* ------------------------------ bounds -------------------------------- *)

\* clock ticks a behaviour may take
MaxTicks == 2
\* token pairs the token endpoint issues in one behaviour
MaxIssued == 3
\* find attempts of the polling loop
MaxAttempts == 2

(* ------------------------- program constants -------------------------- *)

\* is_auth_token_expired: timedelta(seconds=30)
SafetyMarginSeconds == 30
\* byimpf/client.py: schedule.every(10).seconds
ClientJobSeconds == 10
\* impf.py: schedule.every(270).seconds
ImpfJobSeconds == 270
\* self._auth_token = None, self._refresh_token = None
NoToken == 0
\* self._auth_token_expiry = None
NoExpiry == -1

(* --------------------------- the environment -------------------------- *)

\* expires_in values (seconds) of the token endpoint's JSON responses; the
\* endpoint gives every token of a behaviour the same lifetime
ExpiresIn == {20, 40}
\* statuses of the "next appointment" endpoint
SearchStatuses == {200, 404, 401, 500}
\* statuses of the booking endpoint
BookStatuses == {200, 201, 401, 500}
\* statuses of the appointment list endpoint
ListStatuses == {200, 401}
\* bodies of a search response that is neither 2xx, 404 nor 401
ErrorBodies == {"json", "text"}

(* ------------------------------- dates -------------------------------- *)

Digits == <<"0", "1", "2", "3", "4", "5", "6", "7", "8", "9">>

DigitVal(c) == CHOOSE n \in 0..9 : Digits[n + 1] = c

\* datetime.date.fromisoformat: "YYYY-MM-DD" to (year, month, day)
FromIsoFormat(s) ==
    << DigitVal(s[1]) * 1000 + DigitVal(s[2]) * 100 + DigitVal(s[3]) * 10
         + DigitVal(s[4]),
       DigitVal(s[6]) * 10 + DigitVal(s[7]),
       DigitVal(s[9]) * 10 + DigitVal(s[10]) >>

\* the character of one decimal digit
DigitChar(n) == Digits[(n % 10) + 1]

\* date.isoformat / str(date): (year, month, day) to "YYYY-MM-DD"
IsoFormat(d) ==
    << DigitChar(d[1] \div 1000), DigitChar(d[1] \div 100),
       DigitChar(d[1] \div 10), DigitChar(d[1]), "-",
       DigitChar(d[2] \div 10), DigitChar(d[2]), "-",
       DigitChar(d[3] \div 10), DigitChar(d[3]) >>

\* date.__gt__: later in the calendar
DateGT(a, b) ==
    \/ a[1] > b[1]
    \/ a[1] = b[1] /\ a[2] > b[2]
    \/ a[1] = b[1] /\ a[2] = b[2] /\ a[3] > b[3]

\* an absent date (None)
NoDate == <<>>

\* the days on which a behaviour may run
Today1 == <<2024, 1, 15>>
Today2 == <<2024, 1, 16>>

\* vaccinationDate values the search endpoint offers
OfferDates == { <<"2", "0", "2", "4", "-", "0", "1", "-", "3", "1">>,
                <<"2", "0", "2", "4", "-", "0", "2", "-", "0", "5">> }

\* --earliest-day / --latest-day values of the command line
EarliestDays == {NoDate, <<2024, 1, 20>>}
LatestDays == {NoDate, <<2024, 1, 31>>}

\* vaccination_type, first_vaccine and variant of an AppointmentOptions, by
\* the values of the enums VaccinationType, Vaccine and Variant; "None" is
\* None.  impf.py's find has none of the three.
Doses ==
    { [vaccination_type |-> "BOOST", first_vaccine |-> "None",
       variant |-> "OMC_BA4-5"],
      [vaccination_type |-> "SECOND", first_vaccine |-> "002",
       variant |-> "None"],
      [vaccination_type |-> "SECOND", first_vaccine |-> "None",
       variant |-> "None"] }

NoDose ==
    [vaccination_type |-> "None", first_vaccine |-> "None",
     variant |-> "None"]

\* AppointmentOptions(...): the dataclass stores what it is given
AppointmentOptions(earliest_day, latest_day, book, dose) ==
    [ earliest_day |-> earliest_day, latest_day |-> latest_day,
      book |-> book, variant |-> dose.variant,
      first_vaccine |-> dose.first_vaccine,
      vaccination_type |-> dose.vaccination_type ]

\* the queries of a behaviour: every combination of days and book flag for
\* a booster, and the second-dose queries without day limits
Queries ==
    { o \in { AppointmentOptions(e[1], e[2], e[3], e[4]) :
                e \in EarliestDays \X LatestDays \X BOOLEAN \X Doses } :
        o.vaccination_type = "SECOND"
            => (o.earliest_day = NoDate /\ o.latest_day = NoDate) }

(* ------------------------------- state -------------------------------- *)

VARIABLES
    impl,               \* "client" (byimpf/client.py) or "impf" (impf.py)
    polling,            \* args.interval is not None
    expires_in,         \* expires_in of the token endpoint's responses
    options,            \* AppointmentOptions / the arguments of find
    today,              \* date.today()
    now,                \* datetime.datetime.now(), in seconds
    pc,                 \* where the foreground (main) is
    call,               \* the authenticated call in progress
    auth_token,         \* self._auth_token
    auth_token_expiry,  \* self._auth_token_expiry
    refresh_token,      \* self._refresh_token
    jobs,               \* schedule's job list: the next_run of each job
    stop,               \* the cease_continuous_run event
    issued,             \* token pairs issued by the token endpoint so far
    held,               \* the value auth_token() returned to the caller
    fg_rsp,             \* token response the foreground is storing
    last_date,          \* the lastDate parameter of the search being built
    appt,               \* the payload _find_appointment returned
    attempts,           \* find attempts started
    bg_pc,              \* where the ScheduleThread is
    bg_due,             \* jobs run_pending still has to run
    bg_req,             \* refresh_token the refresh request in flight carries
    bg_rsp,             \* token response the background is storing
    hist                \* what happened so far (observations only)

vars == << impl, polling, expires_in, options, today, now, pc, call,
           auth_token, auth_token_expiry, refresh_token, jobs, stop, issued,
           held, fg_rsp, last_date, appt, attempts, bg_pc, bg_due, bg_req,
           bg_rsp, hist >>

session == << auth_token, auth_token_expiry, refresh_token >>

NoRsp == [tok |-> NoToken, exp |-> NoExpiry]

NoAppt == [kind |-> "none", date |-> NoDate]

NoBody == [kind |-> "none", date |-> NoDate]

NoSearch == [status |-> 0, body |-> NoBody, out |-> "none"]

NoBook == [status |-> 0, out |-> "none"]

NoParams ==
    [lastDate |-> NoDate, vaccinationType |-> "None", variant |-> "None",
     firstVaccinationVaccine |-> "None"]

NoSent == [kind |-> "none", token |-> NoToken, params |-> NoParams]

HistInit ==
    [ sent         |-> NoSent,  \* the last authenticated request sent
      stale401     |-> FALSE,   \* a 401 was received and no reset ran since
      need_login   |-> FALSE,   \* the current auth_token() found no token
      login_steps  |-> {},      \* login steps the current auth_token() did
      login_tok    |-> NoToken, \* token the current auth_token()'s login got
      login_failed |-> FALSE,   \* a login has failed
      below_margin |-> FALSE,   \* auth_token() returned a stored token with
                                \* less than the safety margin left
      search       |-> NoSearch,\* the last search response and what
                                \* _find_appointment made of it
      book         |-> NoBook,  \* the last booking response and what _book
                                \* made of it
      bg_failed    |-> FALSE,   \* a background refresh has failed
      result       |-> "none",  \* how the current find ended: "True",
                                \* "False", "raised", or "none" (not yet)
      searches     |-> 0,       \* search requests sent
      books        |-> 0,       \* booking requests sent
      notified     |-> 0,       \* calls of notify
      waits        |-> 0,       \* waits of the polling loop
      expired      |-> FALSE,   \* auth_token() returned a stored token
                                \* whose expiry is not in the future
      earliest_arg |-> NoDate,  \* the earliest day main was started with
      day          |-> NoDate ] \* date.today() when the current find began

JobSeconds == IF impl = "client" THEN ClientJobSeconds ELSE ImpfJobSeconds

Init ==
    /\ impl \in {"client", "impf"}
    /\ polling \in BOOLEAN
    /\ expires_in \in ExpiresIn
    /\ options \in IF impl = "client" THEN Queries
                   ELSE { AppointmentOptions(e, NoDate, b, NoDose) :
                            e \in EarliestDays, b \in BOOLEAN }
    /\ today = Today1
    /\ now = 0
    /\ pc = "main"
    /\ call = "none"
    /\ auth_token = NoToken
    /\ auth_token_expiry = NoExpiry
    /\ refresh_token = NoToken
    /\ jobs = <<>>
    /\ stop = FALSE
    /\ issued = 0
    /\ held = NoToken
    /\ fg_rsp = NoRsp
    /\ last_date = NoDate
    /\ appt = NoAppt
    /\ attempts = 0
    /\ bg_pc = "off"
    /\ bg_due = <<>>
    /\ bg_req = NoToken
    /\ bg_rsp = NoRsp
    /\ hist = HistInit

(* ----------------------------- the session ---------------------------- *)

\* is_auth_token_expired without the safety margin: true only once the
\* expiry has passed
IsAuthTokenExpired_NoMargin ==
    /\ impl = "client"
    /\ auth_token_expiry # NoExpiry
    /\ auth_token_expiry - now < 0

\* is_auth_token_expired (byimpf/client.py); impf.py keeps no expiry
IsAuthTokenExpired ==
    /\ impl = "client"
    /\ auth_token_expiry # NoExpiry
    /\ auth_token_expiry - now < SafetyMarginSeconds

(* --------------------------- leaving find ----------------------------- *)

\* main after find: print_appointments if --book, else the end
AfterLoop ==
    IF options.book
    THEN pc' = "auth" /\ call' = "list"
    ELSE pc' = "done" /\ call' = "none"

\* main going from a False result to the next attempt without the wait
AfterFind_NoWait(result) ==
    IF polling
    THEN IF result
         THEN stop' = TRUE /\ AfterLoop
         ELSE stop' = stop /\ pc' = "find" /\ call' = "none"
    ELSE stop' = stop /\ AfterLoop

\* main retrying a False result whether or not --interval was given
AfterFind_AlwaysLoops(result) ==
    IF result
    THEN stop' = polling /\ AfterLoop
    ELSE stop' = stop /\ pc' = "wait" /\ call' = "none"

\* main staying in the loop whatever find returned: a True result waits
\* and retries like a False one
AfterFind_NeverLeaves(result) ==
    IF polling
    THEN stop' = stop /\ pc' = "wait" /\ call' = "none"
    ELSE stop' = stop /\ AfterLoop

\* main on find's return value.  With --interval a False result raises
\* "Unsuccessful attempt", which tenacity's Retrying answers with a wait and
\* another attempt; a True result leaves the loop and the with block, whose
\* __exit__ sets the stop event.  Without --interval the result is dropped.
AfterFind(result) ==
    IF polling
    THEN IF result
         THEN stop' = TRUE /\ AfterLoop
         ELSE stop' = stop /\ pc' = "wait" /\ call' = "none"
    ELSE stop' = stop /\ AfterLoop

\* An exception leaving the call in progress.  Inside "with attempt" tenacity
\* swallows it and retries when it is an Exception; SystemExit (exit(1)) is no
\* Exception and is re-raised through the with block.  Outside the loop
\* nothing catches it.
Raise(exc) ==
    /\ call' = "none"
    /\ IF polling /\ call # "list"
       THEN IF exc = "Exception"
            THEN pc' = "wait" /\ stop' = stop
            ELSE pc' = "exit1" /\ stop' = TRUE
       ELSE /\ pc' = IF exc = "SystemExit" THEN "exit1" ELSE "crashed"
            /\ stop' = stop

(* ---------------------------- foreground ------------------------------ *)

\* main: "with checker" (__enter__ starts the ScheduleThread) if --interval
Main ==
    /\ pc = "main"
    /\ pc' = "find"
    /\ bg_pc' = IF polling THEN "check" ELSE bg_pc
    /\ hist' = [hist EXCEPT !.earliest_arg = options.earliest_day]
    /\ UNCHANGED << impl, polling, expires_in, options, today, now, call,
                    session, jobs, stop, issued, held, fg_rsp, last_date,
                    appt, attempts, bg_due, bg_req, bg_rsp >>

\* find up to the call of _find_appointment, which builds params first
FindStart ==
    /\ pc = "find"
    /\ attempts' = attempts + 1
    /\ options' = IF impl = "client" /\ options.earliest_day = NoDate
                  THEN [options EXCEPT !.earliest_day = today]
                  ELSE options
    /\ last_date' = IF options.earliest_day = NoDate
                    THEN IsoFormat(today)
                    ELSE IsoFormat(options.earliest_day)
    /\ appt' = NoAppt
    /\ call' = "search"
    /\ pc' = "auth"
    /\ hist' = [hist EXCEPT !.result = "none", !.day = today]
    /\ UNCHANGED << impl, polling, expires_in, today, now, session, jobs,
                    stop, issued, held, fg_rsp, bg_pc, bg_due, bg_req,
                    bg_rsp >>

\* auth_token(): log in if no token is stored, else return the stored one
AuthToken ==
    /\ pc = "auth"
    /\ IF auth_token = NoToken
       THEN /\ pc' = "login_page"
            /\ held' = held
            /\ hist' = [hist EXCEPT !.need_login = TRUE, !.login_steps = {},
                                    !.login_tok = NoToken,
                                    !.below_margin = FALSE,
                                    !.expired = FALSE]
       ELSE /\ pc' = "send"
            /\ held' = auth_token
            /\ hist' = [hist EXCEPT !.need_login = FALSE, !.login_steps = {},
                                    !.login_tok = NoToken,
                                    !.below_margin = IsAuthTokenExpired,
                                    !.expired =
                                        /\ auth_token_expiry # NoExpiry
                                        /\ auth_token_expiry <= now]
    /\ UNCHANGED << impl, polling, expires_in, options, today, now, call,
                    session, jobs, stop, issued, fg_rsp, last_date, appt,
                    attempts, bg_pc, bg_due, bg_req, bg_rsp >>

\* a login step failed: HTTPError is caught by auth_token, which calls
\* exit(1); any other exception leaves auth_token as it is
LoginFails(exc) ==
    /\ Raise(exc)
    /\ hist' = [hist EXCEPT !.login_failed = TRUE,
                            !.result = IF call = "list" THEN @ ELSE "raised"]
    /\ UNCHANGED << impl, polling, expires_in, options, today, now, session,
                    jobs, issued, held, fg_rsp, last_date, appt, attempts,
                    bg_pc, bg_due, bg_req, bg_rsp >>

\* _get_login_action: GET the login page, find the form kc-form-login
LoginPage ==
    /\ pc = "login_page"
    /\ \E outcome \in {"form", "http_error", "no_form"} :
         CASE outcome = "form" ->
                /\ pc' = "login_submit"
                /\ hist' = [hist EXCEPT !.login_steps = @ \cup {"page"}]
                /\ UNCHANGED << impl, polling, expires_in, options, today,
                                now, call, session, jobs, stop, issued, held,
                                fg_rsp, last_date, appt, attempts, bg_pc,
                                bg_due, bg_req, bg_rsp >>
           [] outcome = "http_error" -> LoginFails("SystemExit")
           [] outcome = "no_form" -> LoginFails("Exception")

\* _login: POST the credentials, read the code from the Location fragment
LoginSubmit ==
    /\ pc = "login_submit"
    /\ \E outcome \in {"code", "http_error", "no_location", "no_code"} :
         CASE outcome = "code" ->
                /\ pc' = "login_token"
                /\ hist' = [hist EXCEPT !.login_steps = @ \cup {"submit"}]
                /\ UNCHANGED << impl, polling, expires_in, options, today,
                                now, call, session, jobs, stop, issued, held,
                                fg_rsp, last_date, appt, attempts, bg_pc,
                                bg_due, bg_req, bg_rsp >>
           [] outcome = "http_error" -> LoginFails("SystemExit")
           [] outcome \in {"no_location", "no_code"} -> LoginFails("Exception")

\* refresh_auth_token(code): the code exchange and the first store
LoginToken ==
    /\ pc = "login_token"
    /\ \/ /\ issued < MaxIssued
          /\ fg_rsp' = [tok |-> issued + 1, exp |-> now + expires_in]
          /\ issued' = issued + 1
          /\ auth_token' = issued + 1
          /\ pc' = IF impl = "client" THEN "login_w2" ELSE "login_w3"
          /\ UNCHANGED << impl, polling, expires_in, options, today, now,
                          call, auth_token_expiry, refresh_token, jobs, stop,
                          held, last_date, appt, attempts, bg_pc, bg_due,
                          bg_req, bg_rsp, hist >>
       \/ LoginFails("SystemExit")

\* the store of _auth_token_expiry (byimpf/client.py only)
LoginStoreExpiry ==
    /\ pc = "login_w2"
    /\ auth_token_expiry' = fg_rsp.exp
    /\ pc' = "login_w3"
    /\ UNCHANGED << impl, polling, expires_in, options, today, now, call,
                    auth_token, refresh_token, jobs, stop, issued, held,
                    fg_rsp, last_date, appt, attempts, bg_pc, bg_due, bg_req,
                    bg_rsp, hist >>

\* the store of _refresh_token, then _login arms the refresh job
LoginStoreRefresh ==
    /\ pc = "login_w3"
    /\ refresh_token' = fg_rsp.tok
    /\ jobs' = Append(jobs, now + JobSeconds)
    /\ fg_rsp' = NoRsp
    /\ pc' = "auth_ret"
    /\ hist' = [hist EXCEPT !.login_steps = @ \cup {"exchange"},
                            !.login_tok = fg_rsp.tok]
    /\ UNCHANGED << impl, polling, expires_in, options, today, now, call,
                    auth_token, auth_token_expiry, stop, issued, held,
                    last_date, appt, attempts, bg_pc, bg_due, bg_req,
                    bg_rsp >>

\* auth_token() after _login: return self._auth_token
AuthReturn ==
    /\ pc = "auth_ret"
    /\ held' = auth_token
    /\ pc' = "send"
    /\ UNCHANGED << impl, polling, expires_in, options, today, now, call,
                    session, jobs, stop, issued, fg_rsp, last_date, appt,
                    attempts, bg_pc, bg_due, bg_req, bg_rsp, hist >>

(* ------------------------- search, book, list ------------------------- *)

\* bodies of a search response: an offer (JSON with vaccinationDate), other
\* JSON, or text that is no JSON
Bodies ==
    { [kind |-> "offer", date |-> d] : d \in OfferDates }
      \cup { [kind |-> k, date |-> NoDate] : k \in ErrorBodies }

\* the responses of the search endpoint: 2xx with an offer, 404 and 401
\* (whose bodies are not read), any other status with an error body
SearchResponses ==
    { r \in [status : SearchStatuses, body : Bodies] :
        \/ r.status \div 100 = 2 /\ r.body.kind = "offer"
        \/ r.status \in {404, 401} /\ r.body.kind = "text"
        \/ r.status \div 100 # 2 /\ r.status \notin {404, 401}
             /\ r.body.kind # "offer" }

\* _find_appointment with the latest day excluded: an offer on latest_day
\* itself is dropped too
FindAppointment_Exclusive(status, body) ==
    IF status = 404 THEN [out |-> "None", appt |-> NoAppt]
    ELSE IF status = 401 THEN [out |-> "reset", appt |-> NoAppt]
    ELSE IF body.kind = "text" THEN [out |-> "raise", appt |-> NoAppt]
    ELSE IF impl = "client" /\ options.latest_day # NoDate
         THEN IF body.kind # "offer" THEN [out |-> "raise", appt |-> NoAppt]
              ELSE IF ~DateGT(options.latest_day, FromIsoFormat(body.date))
                   THEN [out |-> "None", appt |-> NoAppt]
                   ELSE [out |-> "appt", appt |-> body]
         ELSE [out |-> "appt", appt |-> body]

\* _find_appointment from the response on: what it does ("None": returns
\* None, "reset": resets the session and returns None, "appt": returns the
\* payload, "raise": raises) and the payload
FindAppointment(status, body) ==
    IF status = 404 THEN [out |-> "None", appt |-> NoAppt]
    ELSE IF status = 401 THEN [out |-> "reset", appt |-> NoAppt]
    ELSE IF body.kind = "text" THEN [out |-> "raise", appt |-> NoAppt]
    ELSE IF impl = "client" /\ options.latest_day # NoDate
         THEN IF body.kind # "offer" THEN [out |-> "raise", appt |-> NoAppt]
              ELSE IF DateGT(FromIsoFormat(body.date), options.latest_day)
                   THEN [out |-> "None", appt |-> NoAppt]
                   ELSE [out |-> "appt", appt |-> body]
         ELSE [out |-> "appt", appt |-> body]

\* _book taking every 2xx status for a success
BookResult_Any2xx(status) == status \div 100 = 2

\* _book from the response on: its return value
BookResult(status) == status = 200

\* find that calls notify for no offer it found
FindWithAppt_NoNotify(a, h) ==
    IF impl = "client" /\ a.kind # "offer"
    THEN /\ Raise("Exception")
         /\ appt' = NoAppt
         /\ hist' = [h EXCEPT !.result = "raised"]
    ELSE IF options.book
         THEN /\ pc' = "auth"
              /\ call' = "book"
              /\ stop' = stop
              /\ appt' = a
              /\ hist' = h
         ELSE /\ AfterFind(TRUE)
              /\ appt' = a
              /\ hist' = [h EXCEPT !.result = "True"]

\* find from the payload on, h being the history up to here.
\* byimpf/client.py logs appt["vaccinationDate"], a KeyError on a payload
\* that is no offer, and calls notify if it is not to book; impf.py has no
\* notify.
FindWithAppt(a, h) ==
    IF impl = "client" /\ a.kind # "offer"
    THEN /\ Raise("Exception")
         /\ appt' = NoAppt
         /\ hist' = [h EXCEPT !.result = "raised"]
    ELSE IF options.book
         THEN /\ pc' = "auth"
              /\ call' = "book"
              /\ stop' = stop
              /\ appt' = a
              /\ hist' = h
         ELSE /\ AfterFind(TRUE)
              /\ appt' = a
              /\ hist' = [h EXCEPT
                            !.result = "True",
                            !.notified = IF impl = "client" THEN @ + 1
                                         ELSE @]

\* _find_appointment: the query parameters of the search.  variant and
\* firstVaccinationVaccine are left out ("None") when the option is None.
SearchParams ==
    [ lastDate |-> last_date,
      vaccinationType |-> options.vaccination_type,
      variant |-> options.variant,
      firstVaccinationVaccine |-> options.first_vaccine ]

\* _find_appointment: the GET of /next and what follows in find
SearchCall ==
    /\ pc = "send"
    /\ call = "search"
    /\ \E rsp \in SearchResponses :
         LET r == FindAppointment(rsp.status, rsp.body)
             h == [hist EXCEPT
                     !.sent = [kind |-> "search", token |-> held,
                               params |-> SearchParams],
                     !.searches = @ + 1,
                     !.stale401 = @ \/ rsp.status = 401,
                     !.search = [status |-> rsp.status, body |-> rsp.body,
                                 out |-> IF r.out = "reset" THEN "None"
                                         ELSE r.out]]
         IN  CASE r.out = "None" ->
                    /\ AfterFind(FALSE)
                    /\ hist' = [h EXCEPT !.result = "False"]
                    /\ UNCHANGED << appt, auth_token >>
               [] r.out = "reset" ->
                    /\ auth_token' = NoToken
                    /\ pc' = "reset2"
                    /\ hist' = h
                    /\ UNCHANGED << appt, call, stop >>
               [] r.out = "raise" ->
                    /\ Raise("Exception")
                    /\ hist' = [h EXCEPT !.result = "raised"]
                    /\ UNCHANGED << appt, auth_token >>
               [] r.out = "appt" ->
                    /\ FindWithAppt(r.appt, h)
                    /\ UNCHANGED auth_token
    /\ held' = NoToken
    /\ UNCHANGED << impl, polling, expires_in, options, today, now,
                    auth_token_expiry, refresh_token, jobs, issued, fg_rsp,
                    last_date, attempts, bg_pc, bg_due, bg_req, bg_rsp >>

\* reset_session: the store of _refresh_token; _find_appointment returns None
ResetStoreRefresh ==
    /\ pc = "reset2"
    /\ refresh_token' = NoToken
    /\ hist' = [hist EXCEPT !.stale401 = FALSE, !.result = "False"]
    /\ AfterFind(FALSE)
    /\ UNCHANGED << impl, polling, expires_in, options, today, now,
                    auth_token, auth_token_expiry, jobs, issued, held, fg_rsp,
                    last_date, appt, attempts, bg_pc, bg_due, bg_req,
                    bg_rsp >>

\* _book: the POST of the payload; find returns its result.
\* byimpf/client.py calls notify after a booking that succeeded.
BookCall ==
    /\ pc = "send"
    /\ call = "book"
    /\ \E status \in BookStatuses :
         /\ hist' = [hist EXCEPT
                       !.sent = [kind |-> "book", token |-> held,
                                 params |-> NoParams],
                       !.books = @ + 1,
                       !.notified = IF impl = "client" /\ BookResult(status)
                                    THEN @ + 1 ELSE @,
                       !.result = IF BookResult(status) THEN "True"
                                  ELSE "False",
                       !.stale401 = @ \/ status = 401,
                       !.book = [status |-> status,
                                 out |-> IF BookResult(status) THEN "True"
                                         ELSE "False"]]
         /\ AfterFind(BookResult(status))
    /\ held' = NoToken
    /\ UNCHANGED << impl, polling, expires_in, options, today, now, session,
                    jobs, issued, fg_rsp, last_date, appt, attempts, bg_pc,
                    bg_due, bg_req, bg_rsp >>

\* print_appointments: the GET of the list, then main ends
ListCall ==
    /\ pc = "send"
    /\ call = "list"
    /\ \E status \in ListStatuses :
         hist' = [hist EXCEPT
                    !.sent = [kind |-> "list", token |-> held,
                              params |-> NoParams],
                    !.stale401 = @ \/ status = 401]
    /\ pc' = "done"
    /\ call' = "none"
    /\ held' = NoToken
    /\ UNCHANGED << impl, polling, expires_in, options, today, now, session,
                    jobs, stop, issued, fg_rsp, last_date, appt, attempts,
                    bg_pc, bg_due, bg_req, bg_rsp >>

\* tenacity's wait_fixed(args.interval) between two attempts
Wait ==
    /\ pc = "wait"
    /\ attempts < MaxAttempts
    /\ pc' = "find"
    /\ hist' = [hist EXCEPT !.waits = @ + 1]
    /\ UNCHANGED << impl, polling, expires_in, options, today, now, call,
                    session, jobs, stop, issued, held, fg_rsp, last_date,
                    appt, attempts, bg_pc, bg_due, bg_req, bg_rsp >>

\* a KeyboardInterrupt (Ctrl-C) inside "with checker": no Exception, so
\* tenacity lets it through and __exit__ sets the stop event
Interrupt ==
    /\ polling
    /\ ~stop
    /\ pc \notin {"main", "done", "exit1", "crashed", "cancelled"}
    /\ pc' = "cancelled"
    /\ call' = "none"
    /\ stop' = TRUE
    /\ UNCHANGED << impl, polling, expires_in, options, today, now, session,
                    jobs, issued, held, fg_rsp, last_date, appt, attempts,
                    bg_pc, bg_due, bg_req, bg_rsp, hist >>

(* ---------------------------- background ------------------------------ *)

RECURSIVE SortedJobs(_)
\* sorted(runnable_jobs): the job indices in S by next_run, ties by position
SortedJobs(S) ==
    IF S = {} THEN <<>>
    ELSE LET j == CHOOSE i \in S :
                    \A k \in S : jobs[i] < jobs[k] \/ (jobs[i] = jobs[k] /\ i <= k)
         IN  <<j>> \o SortedJobs(S \ {j})

\* schedule.run_pending: the jobs whose next_run has come
RunnableJobs == SortedJobs({ j \in 1..Len(jobs) : jobs[j] <= now })

\* Job.run after the job function returned: _schedule_next_run
JobDone ==
    /\ jobs' = [jobs EXCEPT ![Head(bg_due)] = now + JobSeconds]
    /\ bg_due' = Tail(bg_due)

\* ScheduleThread.run with "while True": the stop event is never looked at
BgLoop_IgnoresStop ==
    /\ bg_pc = "check"
    /\ bg_pc' = "pending"
    /\ bg_due' = RunnableJobs
    /\ UNCHANGED << impl, polling, expires_in, options, today, now, pc, call,
                    session, jobs, stop, issued, held, fg_rsp, last_date,
                    appt, attempts, bg_req, bg_rsp, hist >>

\* ScheduleThread.run: the loop test, then run_pending collects the jobs
BgLoop ==
    /\ bg_pc = "check"
    /\ IF stop
       THEN bg_pc' = "stopped" /\ bg_due' = bg_due
       ELSE bg_pc' = "pending" /\ bg_due' = RunnableJobs
    /\ UNCHANGED << impl, polling, expires_in, options, today, now, pc, call,
                    session, jobs, stop, issued, held, fg_rsp, last_date,
                    appt, attempts, bg_req, bg_rsp, hist >>

\* refresh_auth_token() as a job: return at once if the token is not about
\* to expire (byimpf/client.py), else send the refresh request
BgRunJob ==
    /\ bg_pc = "pending"
    /\ bg_due # <<>>
    /\ IF impl = "client" /\ ~IsAuthTokenExpired
       THEN /\ JobDone
            /\ UNCHANGED << bg_pc, bg_req >>
       ELSE /\ bg_req' = refresh_token
            /\ bg_pc' = "refreshing"
            /\ UNCHANGED << jobs, bg_due >>
    /\ UNCHANGED << impl, polling, expires_in, options, today, now, pc, call,
                    session, stop, issued, held, fg_rsp, last_date, appt,
                    attempts, bg_rsp, hist >>

\* the refresh answer handled by dropping the stored tokens when the
\* refresh fails
BgRefreshResponse_ClearsOnFailure ==
    /\ bg_pc = "refreshing"
    /\ \/ /\ bg_req # NoToken
          /\ issued < MaxIssued
          /\ bg_rsp' = [tok |-> issued + 1, exp |-> now + expires_in]
          /\ issued' = issued + 1
          /\ auth_token' = issued + 1
          /\ bg_pc' = IF impl = "client" THEN "bg_w2" ELSE "bg_w3"
          /\ UNCHANGED << hist, refresh_token >>
       \/ /\ bg_pc' = "dead"
          /\ hist' = [hist EXCEPT !.bg_failed = TRUE]
          /\ auth_token' = NoToken
          /\ refresh_token' = NoToken
          /\ UNCHANGED << bg_rsp, issued >>
    /\ bg_req' = NoToken
    /\ UNCHANGED << impl, polling, expires_in, options, today, now, pc, call,
                    auth_token_expiry, jobs, stop, held, fg_rsp, last_date,
                    appt, attempts, bg_due >>

\* the token endpoint answers the refresh: raise_for_status raises out of
\* run_pending and ends the thread, or the first store is made.  The endpoint
\* issues no tokens for a request that carries no refresh token.
BgRefreshResponse ==
    /\ bg_pc = "refreshing"
    /\ \/ /\ bg_req # NoToken
          /\ issued < MaxIssued
          /\ bg_rsp' = [tok |-> issued + 1, exp |-> now + expires_in]
          /\ issued' = issued + 1
          /\ auth_token' = issued + 1
          /\ bg_pc' = IF impl = "client" THEN "bg_w2" ELSE "bg_w3"
          /\ UNCHANGED hist
       \/ /\ bg_pc' = "dead"
          /\ hist' = [hist EXCEPT !.bg_failed = TRUE]
          /\ UNCHANGED << bg_rsp, issued, auth_token >>
    /\ bg_req' = NoToken
    /\ UNCHANGED << impl, polling, expires_in, options, today, now, pc, call,
                    auth_token_expiry, refresh_token, jobs, stop, held,
                    fg_rsp, last_date, appt, attempts, bg_due >>

\* the store of _auth_token_expiry (byimpf/client.py only)
BgStoreExpiry ==
    /\ bg_pc = "bg_w2"
    /\ auth_token_expiry' = bg_rsp.exp
    /\ bg_pc' = "bg_w3"
    /\ UNCHANGED << impl, polling, expires_in, options, today, now, pc, call,
                    auth_token, refresh_token, jobs, stop, issued, held,
                    fg_rsp, last_date, appt, attempts, bg_due, bg_req, bg_rsp,
                    hist >>

\* the store of _refresh_token; the job returns
BgStoreRefresh ==
    /\ bg_pc = "bg_w3"
    /\ refresh_token' = bg_rsp.tok
    /\ bg_rsp' = NoRsp
    /\ JobDone
    /\ bg_pc' = "pending"
    /\ UNCHANGED << impl, polling, expires_in, options, today, now, pc, call,
                    auth_token, auth_token_expiry, stop, issued, held, fg_rsp,
                    last_date, appt, attempts, bg_req, hist >>

\* run_pending is through: time.sleep(interval)
BgSleep ==
    /\ bg_pc = "pending"
    /\ bg_due = <<>>
    /\ bg_pc' = "check"
    /\ UNCHANGED << impl, polling, expires_in, options, today, now, pc, call,
                    session, jobs, stop, issued, held, fg_rsp, last_date,
                    appt, attempts, bg_due, bg_req, bg_rsp, hist >>

(* -------------------------------- time -------------------------------- *)

\* the clock, observed at multiples of the refresh job's period
Tick ==
    /\ now < MaxTicks * JobSeconds
    /\ now' = now + JobSeconds
    /\ UNCHANGED << impl, polling, expires_in, options, today, pc, call,
                    session, jobs, stop, issued, held, fg_rsp, last_date,
                    appt, attempts, bg_pc, bg_due, bg_req, bg_rsp, hist >>

\* midnight passes: date.today() is the next day from now on
DayChange ==
    /\ today = Today1
    /\ today' = Today2
    /\ pc \notin {"done", "exit1", "crashed", "cancelled"}
    /\ UNCHANGED << impl, polling, expires_in, options, now, pc, call,
                    session, jobs, stop, issued, held, fg_rsp, last_date,
                    appt, attempts, bg_pc, bg_due, bg_req, bg_rsp, hist >>

(* ---------------------------- specification --------------------------- *)

Next ==
    \/ Main
    \/ FindStart
    \/ AuthToken
    \/ LoginPage
    \/ LoginSubmit
    \/ LoginToken
    \/ LoginStoreExpiry
    \/ LoginStoreRefresh
    \/ AuthReturn
    \/ SearchCall
    \/ ResetStoreRefresh
    \/ BookCall
    \/ ListCall
    \/ Wait
    \/ Interrupt
    \/ BgLoop
    \/ BgRunJob
    \/ BgRefreshResponse
    \/ BgStoreExpiry
    \/ BgStoreRefresh
    \/ BgSleep
    \/ Tick

Spec == Init /\ [][Next]_vars

\* byimpf/client.py alone
InitClient == Init /\ impl = "client"

SpecClient == InitClient /\ [][Next]_vars

\* token lifetimes that outlast the safety margin by a period of the refresh
\* job: a token is not about to expire when it is issued
InitLongLived ==
    Init /\ expires_in >= SafetyMarginSeconds + ClientJobSeconds

SpecLongLived == InitLongLived /\ [][Next]_vars

\* polling runs that may go past midnight.  In the other specifications
\* date.today() stays the same for the whole behaviour.
NextDays == Next \/ DayChange

InitDays == InitLongLived /\ polling

SpecDays == InitDays /\ [][NextDays]_vars

\* the steps of the ScheduleThread
BgNext ==
    \/ BgLoop
    \/ BgRunJob
    \/ BgRefreshResponse
    \/ BgStoreExpiry
    \/ BgStoreRefresh
    \/ BgSleep

\* the ScheduleThread is scheduled again and again and its refresh requests
\* are answered: a polling run for a booster with no day limits, with tokens
\* that are not about to expire when issued
InitFair ==
    /\ InitLongLived
    /\ polling
    /\ options.vaccination_type \in {"BOOST", "None"}
    /\ options.earliest_day = NoDate
    /\ options.latest_day = NoDate

FairSpec == InitFair /\ [][Next]_vars /\ WF_vars(BgNext)

\* the steps of the main thread, Ctrl-C apart
FgNext ==
    \/ Main
    \/ FindStart
    \/ AuthToken
    \/ LoginPage
    \/ LoginSubmit
    \/ LoginToken
    \/ LoginStoreExpiry
    \/ LoginStoreRefresh
    \/ AuthReturn
    \/ SearchCall
    \/ ResetStoreRefresh
    \/ BookCall
    \/ ListCall
    \/ Wait

\* the main thread keeps running: every request it sends is answered and
\* every wait of the retry loop ends.  Nothing is assumed about the
\* ScheduleThread.
LiveSpec == InitFair /\ [][Next]_vars /\ WF_vars(FgNext)

(* ------------------------------- claims ------------------------------- *)

\* C1: no authenticated call is started while a 401 has been received by an
\* authenticated call and reset_session has not run since: after a 401 the
\* session is reset before the next authenticated call.
C1_ResetBeforeNextCall == ~(pc = "auth" /\ hist.stale401)

\* the stored token has less than the safety margin left
BelowMargin ==
    /\ impl = "client"
    /\ auth_token_expiry # NoExpiry
    /\ auth_token_expiry - now < SafetyMarginSeconds

C3_LoginBeforeRequest ==
    (pc = "send" /\ hist.need_login) =>
        /\ hist.login_steps = {"page", "submit", "exchange"}
        /\ held = hist.login_tok

\* C4: whenever the search endpoint answered with a non-2xx status,
\* _find_appointment returned None: it neither raised nor returned the body.
C4_Non2xxIsNone ==
    (hist.search.status # 0 /\ hist.search.status \div 100 # 2)
        => hist.search.out = "None"

\* days in calendar order, as one number
DayNumber(d) == d[1] * 10000 + d[2] * 100 + d[3]

\* C5: a 2xx search response carrying an offer is dropped (None) if the offer
\* is dated after latest_day, and returned if it is dated on or before
\* latest_day or no latest_day is set.
C5_LatestDayFilter ==
    (hist.search.status \div 100 = 2 /\ hist.search.body.kind = "offer") =>
        IF /\ options.latest_day # NoDate
           /\ DayNumber(FromIsoFormat(hist.search.body.date))
                > DayNumber(options.latest_day)
        THEN hist.search.out = "None"
        ELSE hist.search.out = "appt"

\* C5 witness: an offer dated after latest_day was dropped
C5_Witness ==
    /\ hist.search.status = 200
    /\ hist.search.body.kind = "offer"
    /\ options.latest_day # NoDate
    /\ hist.search.out = "None"

\* C6: _book returns True if the booking endpoint answered 200 and False for
\* every other status; it raises for none.
C6_BookTrueIff200 ==
    hist.book.status # 0 =>
        /\ hist.book.out \in {"True", "False"}
        /\ hist.book.out = "True" <=> hist.book.status = 200

\* C6 witness: a 2xx status other than 200 made _book return False
C6_Witness ==
    /\ hist.book.status = 201
    /\ hist.book.out = "False"
    /\ hist.sent.kind = "book"

\* C7: once a login has failed, no authenticated request is sent any more.
C7_LoginFailureEndsRun == ~(hist.login_failed /\ pc = "send")

\* C8: a failed background refresh leaves the ScheduleThread running.
C8_FailureKeepsTimer == hist.bg_failed => bg_pc # "dead"

\* C9: the step in which a refresh fails (the background job's refresh, or
\* the code exchange of a login) changes none of access token, refresh token
\* and expiry.
C9_FailedRefreshKeepsSession ==
    [][ ( \/ (bg_pc = "refreshing" /\ bg_pc' = "dead")
          \/ (pc = "login_token" /\ pc' \in {"exit1", "crashed", "wait"}) )
        => session' = session ]_vars

\* C9 witness: the background refresh has failed and the token it should
\* have replaced is still stored
C9_Witness ==
    /\ hist.bg_failed
    /\ bg_pc = "dead"
    /\ auth_token # NoToken
    /\ refresh_token # NoToken

\* the foreground is between the first and the last store of a login or a
\* reset
FgInSessionWrite == pc \in {"login_w2", "login_w3", "reset2"}

\* the background is between the read of _refresh_token and the last store
\* of a refresh
BgInSessionWrite == bg_pc \in {"refreshing", "bg_w2", "bg_w3"}

\* C10: the foreground's login or reset and the background's refresh are
\* never inside their reads and writes of the session fields together.
C10_MutualExclusion == ~(FgInSessionWrite /\ BgInSessionWrite)

\* the polling loop is running or has been left by a find that returned True
InPollingRun ==
    /\ polling
    /\ ~hist.login_failed
    /\ pc \notin {"main", "cancelled"}

C12_OneShot ==
    ~polling =>
        /\ attempts <= 1
        /\ hist.searches <= 1
        /\ hist.waits = 0
        /\ pc # "wait"
        /\ pc \in {"done", "exit1", "crashed"} => attempts = 1

\* C12 witness: the single attempt found nothing and main ended
C12_Witness ==
    /\ ~polling
    /\ attempts = 1
    /\ hist.searches = 1
    /\ hist.result = "False"
    /\ pc = "done"

\* find reported an offer that was not to be booked
FoundNoBook ==
    /\ ~options.book
    /\ hist.search.status \div 100 = 2
    /\ hist.search.body.kind = "offer"
    /\ hist.search.out = "appt"
    /\ hist.result = "True"

C14_OneBookingAttempt ==
    [][ hist.books >= 1 =>
          (hist.searches' = hist.searches /\ hist.books' = hist.books)
      ]_vars

\* the last booking request was answered and was the run's last: it
\* succeeded, or there is no polling loop to retry it
BookingWasFinal ==
    /\ hist.books >= 1
    /\ hist.book.status # 0
    /\ ~polling \/ hist.book.out = "True"

\* C14 as amended: without --interval no search or booking request follows
\* a booking request, whether it succeeded or failed; with --interval none
\* follows a booking request that succeeded, while a failed booking counts
\* as an unsuccessful attempt, after which the loop waits and tries again.
C14_FinalBookingEndsRequests ==
    [][ /\ BookingWasFinal =>
              (hist.searches' = hist.searches /\ hist.books' = hist.books)
        /\ (polling /\ pc = "send" /\ call = "book" /\ pc' # pc
               /\ pc' # "cancelled" /\ hist.book.out' = "False")
              => (pc' = "wait" /\ ~stop')
      ]_vars

\* C14 witness: without --interval a booking failed and main ended after the
\* appointment list, with one search and one booking request sent
C14_Witness ==
    /\ ~polling
    /\ hist.books = 1
    /\ hist.searches = 1
    /\ hist.book.out = "False"
    /\ hist.sent.kind = "list"
    /\ pc = "done"

\* C15: in polling mode the run ends abnormally only after a login failure,
\* and the loop is left only by a find that returned True for a 2xx search
\* response (and a successful booking, if booking was requested): no search
\* failure, booking failure or background refresh failure ends it.
C15_FailuresKeepPolling ==
    polling =>
        /\ pc \in {"exit1", "crashed"} => hist.login_failed
        /\ (stop /\ pc # "cancelled" /\ ~hist.login_failed) =>
              /\ hist.result = "True"
              /\ hist.search.status \div 100 = 2
              /\ options.book => hist.book.out = "True"

\* C16: a query for a second dose without a prior vaccine never gets past
\* its construction: no find is started and no request is made with it.
C16_SecondDoseNeedsFirstVaccine ==
    (options.vaccination_type = "SECOND" /\ options.first_vaccine = "None")
        => (attempts = 0 /\ hist.sent.kind = "none" /\ pc = "main")

\* C17: once the stop event is set the ScheduleThread starts no further
\* run_pending, a thread that has stopped stays stopped, and the thread
\* ends (by the loop test, or earlier by an exception of a job).
C17_CooperativeStop ==
    /\ [][ /\ stop => ~(bg_pc = "check" /\ bg_pc' = "pending")
           /\ bg_pc = "stopped" => bg_pc' = "stopped" ]_vars
    /\ (stop ~> bg_pc \in {"stopped", "dead"})

\* C17 witness: Ctrl-C ended the polling run while a refresh request of the
\* ScheduleThread was in flight
C17_Witness ==
    /\ pc = "cancelled"
    /\ stop
    /\ bg_pc = "refreshing"

\* C18: auth_token() never returns a stored token whose expiry is not in
\* the future.
C18_ReturnedTokenNotExpired == pc = "send" => ~hist.expired

\* C19: at most one refresh job is armed.
C19_OneRefreshJob == Len(jobs) <= 1

\* C20: no step changes a field of the query.
C20_QueryReadOnly == [][options' = options]_vars

\* C21: when a polling run was started without an earliest day, every
\* search request about to be sent carries as lastDate the day on which its
\* find attempt began.
C21_LastDateIsDayOfAttempt ==
    (polling /\ hist.earliest_arg = NoDate /\ pc = "send" /\ call = "search")
        => SearchParams.lastDate = IsoFormat(hist.day)

\* C22: a refresh request in flight carries a refresh token: the job sends
\* none while no refresh token is stored.
C22_NoRefreshWithoutToken == bg_pc = "refreshing" => bg_req # NoToken

\* a login or a reset of the foreground is in progress
FgChangingSession ==
    pc \in {"login_page", "login_submit", "login_token", "login_w2",
            "login_w3", "reset2"}

\* C23: while neither a login or reset (foreground) nor a refresh
\* (background) is in progress and the run was not interrupted, the access
\* token is stored if and only if the refresh token is stored.
C23_TokenPairConsistent ==
    (~FgChangingSession /\ ~BgInSessionWrite /\ pc # "cancelled")
        => (auth_token = NoToken <=> refresh_token = NoToken)

====
